---- MODULE Spec2Model ----
(***************************************************************************)
(* Model of the decision core of infrawatch:                               *)
(*   backend/app/domain/stage_engine.py    (StageEngine)                   *)
(*   backend/app/domain/signal_detector.py (SignalDetector)                *)
(*                                                                         *)
(* Numbers.  Ratios and rates are fixed-point: in thousandths in the       *)
(* StageEngine part (0.30 is 300, so that round(x, 2) has something to     *)
(* round), in hundredths in the SignalDetector part (0.30 is 30); prices   *)
(* and adoption counts are whole units.  Arithmetic is exact: a            *)
(* quotient (current - previous) / previous is compared with a threshold   *)
(* by cross-multiplication.  This is what the code computes for operands   *)
(* that binary floating point represents exactly (whole numbers); the      *)
(* representation error of a decimal fraction such as 0.4 is not modelled, *)
(* so a boundary case is one whose operands are exactly on the boundary.   *)
(*                                                                         *)
(* Optional[float] is the empty tuple << >> (None) or a 1-tuple <<v>>.     *)
(* A dict[str, bool] is a function from the set of its keys.               *)
(***************************************************************************)
EXTENDS Integers, Sequences, FiniteSets, TLC

VARIABLES
    metrics,     \* the StageMetrics snapshot handed to determine
    results,     \* the StageResults returned so far, in call order
    signals,     \* SignalDetector.signals of the detector instance
    lastCall,    \* the last detector call: its arguments and what it returned
    _detector,   \* the module-level _detector: None or the SignalDetector made
    batches      \* the detect_all_signals calls so far, with what they returned

vars == <<metrics, results, signals, lastCall, _detector, batches>>

\* ------------------------------------------------------------- bounds
MaxCalls == 2        \* determine calls recorded in one behaviour of SpecStage
MaxRepeat == 3       \* determine calls recorded in one behaviour of SpecRepeat
MaxSignals == 2      \* detector calls are made while the signal list is shorter
MaxReports == 3      \* stream observations are fed while fewer signals are reported
MaxBatches == 2      \* detect_all_signals calls recorded in one behaviour

\* ------------------------------------------------------------- values
None == << >>
Some(v) == <<v>>
Abs(x) == IF x < 0 THEN -x ELSE x
\* mutant: no clamp at 0, the second argument is returned
MaxSecond(a, b) == b
Max(a, b) == IF a >= b THEN a ELSE b

StageCode == {"S0", "S1", "S2", "S3"}
Confidence == {"LOW", "MEDIUM", "HIGH"}

\* StageEngine.THRESHOLDS, in thousandths
M01_CRITICAL == 300
M01_HEALTHY == 700
M01_SUSTAINABLE == 1000
B_DEFLATION_SEVERE == 150
C_SPOT_EXCESS == 400
C_RENTAL_STABLE == 50
D3_MARGIN_STABLE == 30
A_GROWTH_MIN_STREAK == 2
E_SUPPLY_TIGHT == 800

\* StageMetrics: every field Optional except a_growth_streak (default 0).
\* Each field ranges over None and values on both sides of (and on) every
\* threshold it is compared with.
M01LowVals == {None, Some(697), Some(700), Some(710), Some(997), Some(1000), Some(1010)}
M01HighVals == {None, Some(290), Some(300)}
DeflationVals == {None, Some(150), Some(160)}
SpotVals == {None, Some(400), Some(410)}
RentalVals == {None, Some(-50), Some(40)}
StreakVals == {0, 1, 2}
MarginVals == {None, Some(-30), Some(20)}
SupplyVals == {None, Some(790), Some(800)}

StageMetrics ==
    [m01_low : M01LowVals, m01_high : M01HighVals,
     b_qoq_deflation : DeflationVals, c_spot_discount : SpotVals,
     c_rental_qoq : RentalVals, a_growth_streak : StreakVals,
     d3_margin_qoq : MarginVals, e_supply_tightness : SupplyVals]

\* StageMetrics() with no argument
DefaultMetrics ==
    [m01_low |-> None, m01_high |-> None, b_qoq_deflation |-> None,
     c_spot_discount |-> None, c_rental_qoq |-> None, a_growth_streak |-> 0,
     d3_margin_qoq |-> None, e_supply_tightness |-> None]

\* ------------------------------------------------------------- StageEngine
\* A conditions dict is built by "if field is not None: conditions[key] = fact":
\* present says which keys are set, fact gives the value of a key that is set.

\* mutant: m01_too_low reads the lower bound of the ratio
CheckS0ReadsLow(m) ==
    LET present == [k \in {"m01_too_low", "price_collapse", "capacity_excess"} |->
                      CASE k = "m01_too_low" -> m.m01_low # None
                        [] k = "price_collapse" -> m.b_qoq_deflation # None
                        [] k = "capacity_excess" -> m.c_spot_discount # None]
        fact(k) == CASE k = "m01_too_low" -> m.m01_low[1] < M01_CRITICAL
                     [] k = "price_collapse" -> m.b_qoq_deflation[1] > B_DEFLATION_SEVERE
                     [] k = "capacity_excess" -> m.c_spot_discount[1] > C_SPOT_EXCESS
    IN  [k \in {x \in DOMAIN present : present[x]} |-> fact(k)]

_check_s0_conditions(m) ==
    LET present == [k \in {"m01_too_low", "price_collapse", "capacity_excess"} |->
                      CASE k = "m01_too_low" -> m.m01_high # None
                        [] k = "price_collapse" -> m.b_qoq_deflation # None
                        [] k = "capacity_excess" -> m.c_spot_discount # None]
        fact(k) == CASE k = "m01_too_low" -> m.m01_high[1] < M01_CRITICAL
                     [] k = "price_collapse" -> m.b_qoq_deflation[1] > B_DEFLATION_SEVERE
                     [] k = "capacity_excess" -> m.c_spot_discount[1] > C_SPOT_EXCESS
    IN  [k \in {x \in DOMAIN present : present[x]} |-> fact(k)]

_check_s3_conditions(m) ==
    LET present == [k \in {"m01_sustainable", "margin_stable"} |->
                      CASE k = "m01_sustainable" -> m.m01_low # None
                        [] k = "margin_stable" -> m.d3_margin_qoq # None]
        fact(k) == CASE k = "m01_sustainable" -> m.m01_low[1] > M01_SUSTAINABLE
                     [] k = "margin_stable" -> Abs(m.d3_margin_qoq[1]) < D3_MARGIN_STABLE
    IN  [k \in {x \in DOMAIN present : present[x]} |-> fact(k)]

_check_s2_conditions(m) ==
    LET present == [k \in {"m01_healthy", "rental_stable", "supply_stable"} |->
                      CASE k = "m01_healthy" -> m.m01_low # None
                        [] k = "rental_stable" -> m.c_rental_qoq # None
                        [] k = "supply_stable" -> m.e_supply_tightness # None]
        fact(k) == CASE k = "m01_healthy" -> m.m01_low[1] > M01_HEALTHY
                     [] k = "rental_stable" -> Abs(m.c_rental_qoq[1]) < C_RENTAL_STABLE
                     [] k = "supply_stable" -> m.e_supply_tightness[1] < E_SUPPLY_TIGHT
    IN  [k \in {x \in DOMAIN present : present[x]} |-> fact(k)]

\* mutant: an absent ratio counts as inside the transition band
CheckS1AbsentInBand(m) ==
    LET present == [k \in {"m01_transition", "adoption_growing"} |-> TRUE]
        fact(k) == CASE k = "m01_transition" ->
                            /\ m.m01_high # None => M01_CRITICAL <= m.m01_high[1]
                            /\ m.m01_low # None => m.m01_low[1] <= M01_HEALTHY
                     [] k = "adoption_growing" -> m.a_growth_streak >= A_GROWTH_MIN_STREAK
    IN  [k \in {x \in DOMAIN present : present[x]} |-> fact(k)]

\* mutant: m01_transition is recorded as False when a coverage ratio is absent
CheckS1TransitionAlwaysKeyed(m) ==
    LET present == [k \in {"m01_transition", "adoption_growing"} |-> TRUE]
        fact(k) == CASE k = "m01_transition" ->
                            /\ m.m01_low # None /\ m.m01_high # None
                            /\ M01_CRITICAL <= m.m01_high[1] /\ m.m01_low[1] <= M01_HEALTHY
                     [] k = "adoption_growing" -> m.a_growth_streak >= A_GROWTH_MIN_STREAK
    IN  [k \in {x \in DOMAIN present : present[x]} |-> fact(k)]

_check_s1_conditions(m) ==
    LET present == [k \in {"m01_transition", "adoption_growing"} |->
                      CASE k = "m01_transition" -> m.m01_low # None /\ m.m01_high # None
                        [] k = "adoption_growing" -> TRUE]
        fact(k) == CASE k = "m01_transition" ->
                            M01_CRITICAL <= m.m01_high[1] /\ m.m01_low[1] <= M01_HEALTHY
                     [] k = "adoption_growing" -> m.a_growth_streak >= A_GROWTH_MIN_STREAK
    IN  [k \in {x \in DOMAIN present : present[x]} |-> fact(k)]

\* number of entries of a dict that are True
MetCount(conditions) == Cardinality({k \in DOMAIN conditions : conditions[k]})

\* mutant: all(conditions.values()) alone, without the minimum count
AllMetNoCount(conditions, min_count) ==
    \A k \in DOMAIN conditions : conditions[k]

\* mutant: one true fact fewer than min_count is enough
AllMetOffByOne(conditions, min_count) ==
    /\ MetCount(conditions) + 1 >= min_count
    /\ \A k \in DOMAIN conditions : conditions[k]

_all_met(conditions, min_count) ==
    /\ MetCount(conditions) >= min_count
    /\ \A k \in DOMAIN conditions : conditions[k]

_any_met(conditions) == \E k \in DOMAIN conditions : conditions[k]

\* "x or 0": None and 0.0 are both falsy
OrZero(x) == IF x = None THEN 0 ELSE x[1]

\* round(x, 2) of a value in thousandths: to the nearest hundredth, a tie
\* (a 5 in the last place) to the even hundredth
Round2(x) ==
    LET q == x \div 10
        r == x % 10
    IN  10 * (IF r > 5 \/ (r = 5 /\ q % 2 = 1) THEN q + 1 ELSE q)

EmptyDict == [k \in {} |-> TRUE]

\* mutant: to_S0 is "high" only above two true S0 facts
RisksFromS1ToS0Strict(m) ==
    LET s0_conds == _check_s0_conditions(m)
        s0_met == MetCount(s0_conds)
        s2_conds == _check_s2_conditions(m)
        s2_met == MetCount(s2_conds)
        m01_gap == Max(0, M01_HEALTHY - OrZero(m.m01_low))
    IN  [k \in {"to_S0", "to_S2"} |->
           IF k = "to_S0"
           THEN [probability |-> IF s0_met > 2 THEN "high" ELSE "low",
                 conditions_met |-> s0_met,
                 conditions_total |-> 3,
                 details |-> s0_conds]
           ELSE [probability |-> IF s2_met >= 2 THEN "high"
                                 ELSE IF s2_met >= 1 THEN "medium" ELSE "low",
                 conditions_met |-> s2_met,
                 conditions_total |-> 2,
                 details |-> s2_conds,
                 gap |-> [m01_needed |-> Round2(m01_gap)]]]

\* mutant: only two of the S2 facts are counted, supply_stable is left out
RisksFromS1TwoS2Facts(m) ==
    LET s0_conds == _check_s0_conditions(m)
        s0_met == MetCount(s0_conds)
        s2_conds == _check_s2_conditions(m)
        s2_met == Cardinality({k \in DOMAIN s2_conds \cap {"m01_healthy", "rental_stable"} :
                                   s2_conds[k]})
        m01_gap == Max(0, M01_HEALTHY - OrZero(m.m01_low))
    IN  [k \in {"to_S0", "to_S2"} |->
           IF k = "to_S0"
           THEN [probability |-> IF s0_met >= 2 THEN "high" ELSE "low",
                 conditions_met |-> s0_met,
                 conditions_total |-> 3,
                 details |-> s0_conds]
           ELSE [probability |-> IF s2_met >= 2 THEN "high"
                                 ELSE IF s2_met >= 1 THEN "medium" ELSE "low",
                 conditions_met |-> s2_met,
                 conditions_total |-> 2,
                 details |-> s2_conds,
                 gap |-> [m01_needed |-> Round2(m01_gap)]]]

\* the branch "if current_stage == StageCode.S1"
RisksFromS1(m) ==
    LET s0_conds == _check_s0_conditions(m)
        s0_met == MetCount(s0_conds)
        s2_conds == _check_s2_conditions(m)
        s2_met == MetCount(s2_conds)
        m01_gap == Max(0, M01_HEALTHY - OrZero(m.m01_low))
    IN  [k \in {"to_S0", "to_S2"} |->
           IF k = "to_S0"
           THEN [probability |-> IF s0_met >= 2 THEN "high" ELSE "low",
                 conditions_met |-> s0_met,
                 conditions_total |-> 3,
                 details |-> s0_conds]
           ELSE [probability |-> IF s2_met >= 2 THEN "high"
                                 ELSE IF s2_met >= 1 THEN "medium" ELSE "low",
                 conditions_met |-> s2_met,
                 conditions_total |-> 2,
                 details |-> s2_conds,
                 gap |-> [m01_needed |-> Round2(m01_gap)]]]

\* mutant: to_S3 has a "low" tier like to_S2
RisksFromS2LowTier(m) ==
    LET s3_conds == _check_s3_conditions(m)
        s3_met == MetCount(s3_conds)
        m01_gap == Max(0, M01_SUSTAINABLE - OrZero(m.m01_low))
    IN  [k \in {"to_S3", "to_S1"} |->
           IF k = "to_S3"
           THEN [probability |-> IF s3_met >= 2 THEN "high"
                                 ELSE IF s3_met >= 1 THEN "medium" ELSE "low",
                 conditions_met |-> s3_met,
                 conditions_total |-> 2,
                 gap |-> [m01_needed |-> Round2(m01_gap)]]
           ELSE [probability |-> "low",
                 conditions_met |-> 0,
                 conditions_total |-> 2,
                 details |-> EmptyDict]]

\* the branch "elif current_stage == StageCode.S2"
RisksFromS2(m) ==
    LET s3_conds == _check_s3_conditions(m)
        s3_met == MetCount(s3_conds)
        m01_gap == Max(0, M01_SUSTAINABLE - OrZero(m.m01_low))
    IN  [k \in {"to_S3", "to_S1"} |->
           IF k = "to_S3"
           THEN [probability |-> IF s3_met >= 2 THEN "high" ELSE "medium",
                 conditions_met |-> s3_met,
                 conditions_total |-> 2,
                 gap |-> [m01_needed |-> Round2(m01_gap)]]
           ELSE [probability |-> "low",
                 conditions_met |-> 0,
                 conditions_total |-> 2,
                 details |-> EmptyDict]]

\* mutant: "else" in place of "elif current_stage == StageCode.S2"
TransitionRisksElse(current_stage, m) ==
    IF current_stage = "S1" THEN RisksFromS1(m) ELSE RisksFromS2(m)

_calculate_transition_risks(current_stage, m) ==
    IF current_stage = "S1" THEN RisksFromS1(m)
    ELSE IF current_stage = "S2" THEN RisksFromS2(m)
    ELSE EmptyDict

\* mutant: S2 is tried before S3
ResolveStageS2First(m) ==
    LET s0_conditions == _check_s0_conditions(m)
        s3_conditions == _check_s3_conditions(m)
        s2_conditions == _check_s2_conditions(m)
        s1_conditions == _check_s1_conditions(m)
    IN  IF _all_met(s0_conditions, 3) THEN
            [stage |-> "S0", confidence |-> "HIGH", trigger |-> s0_conditions]
        ELSE IF _all_met(s2_conditions, 2) THEN
            [stage |-> "S2", confidence |-> "HIGH", trigger |-> s2_conditions]
        ELSE IF _all_met(s3_conditions, 2) THEN
            [stage |-> "S3", confidence |-> "HIGH", trigger |-> s3_conditions]
        ELSE IF _any_met(s1_conditions) THEN
            [stage |-> "S1",
             confidence |-> IF m.a_growth_streak >= 2 THEN "HIGH" ELSE "MEDIUM",
             trigger |-> s1_conditions]
        ELSE
            [stage |-> "S1", confidence |-> "LOW", trigger |-> s1_conditions]

\* mutant: the final else is missing, so stage stays unbound when nothing matches
ResolveStageNoElse(m) ==
    LET s0_conditions == _check_s0_conditions(m)
        s3_conditions == _check_s3_conditions(m)
        s2_conditions == _check_s2_conditions(m)
        s1_conditions == _check_s1_conditions(m)
    IN  IF _all_met(s0_conditions, 3) THEN
            [stage |-> "S0", confidence |-> "HIGH", trigger |-> s0_conditions]
        ELSE IF _all_met(s3_conditions, 2) THEN
            [stage |-> "S3", confidence |-> "HIGH", trigger |-> s3_conditions]
        ELSE IF _all_met(s2_conditions, 2) THEN
            [stage |-> "S2", confidence |-> "HIGH", trigger |-> s2_conditions]
        ELSE IF _any_met(s1_conditions) THEN
            [stage |-> "S1",
             confidence |-> IF m.a_growth_streak >= 2 THEN "HIGH" ELSE "MEDIUM",
             trigger |-> s1_conditions]
        ELSE
            [stage |-> "UNBOUND", confidence |-> "UNBOUND", trigger |-> EmptyDict]

\* mutant: S3 is tested before S0
ResolveStageS3First(m) ==
    LET s0_conditions == _check_s0_conditions(m)
        s3_conditions == _check_s3_conditions(m)
        s2_conditions == _check_s2_conditions(m)
        s1_conditions == _check_s1_conditions(m)
    IN  IF _all_met(s3_conditions, 2) THEN
            [stage |-> "S3", confidence |-> "HIGH", trigger |-> s3_conditions]
        ELSE IF _all_met(s0_conditions, 3) THEN
            [stage |-> "S0", confidence |-> "HIGH", trigger |-> s0_conditions]
        ELSE IF _all_met(s2_conditions, 2) THEN
            [stage |-> "S2", confidence |-> "HIGH", trigger |-> s2_conditions]
        ELSE IF _any_met(s1_conditions) THEN
            [stage |-> "S1",
             confidence |-> IF m.a_growth_streak >= 2 THEN "HIGH" ELSE "MEDIUM",
             trigger |-> s1_conditions]
        ELSE
            [stage |-> "S1", confidence |-> "LOW", trigger |-> s1_conditions]

\* mutant: S1 is HIGH only for a streak above 2
ResolveStageStreakStrict(m) ==
    LET s0_conditions == _check_s0_conditions(m)
        s3_conditions == _check_s3_conditions(m)
        s2_conditions == _check_s2_conditions(m)
        s1_conditions == _check_s1_conditions(m)
    IN  IF _all_met(s0_conditions, 3) THEN
            [stage |-> "S0", confidence |-> "HIGH", trigger |-> s0_conditions]
        ELSE IF _all_met(s3_conditions, 2) THEN
            [stage |-> "S3", confidence |-> "HIGH", trigger |-> s3_conditions]
        ELSE IF _all_met(s2_conditions, 2) THEN
            [stage |-> "S2", confidence |-> "HIGH", trigger |-> s2_conditions]
        ELSE IF _any_met(s1_conditions) THEN
            [stage |-> "S1",
             confidence |-> IF m.a_growth_streak > 2 THEN "HIGH" ELSE "MEDIUM",
             trigger |-> s1_conditions]
        ELSE
            [stage |-> "S1", confidence |-> "LOW", trigger |-> s1_conditions]

\* mutant: S1 is tested before S2
ResolveStageS1BeforeS2(m) ==
    LET s0_conditions == _check_s0_conditions(m)
        s3_conditions == _check_s3_conditions(m)
        s2_conditions == _check_s2_conditions(m)
        s1_conditions == _check_s1_conditions(m)
    IN  IF _all_met(s0_conditions, 3) THEN
            [stage |-> "S0", confidence |-> "HIGH", trigger |-> s0_conditions]
        ELSE IF _all_met(s3_conditions, 2) THEN
            [stage |-> "S3", confidence |-> "HIGH", trigger |-> s3_conditions]
        ELSE IF _any_met(s1_conditions) THEN
            [stage |-> "S1",
             confidence |-> IF m.a_growth_streak >= 2 THEN "HIGH" ELSE "MEDIUM",
             trigger |-> s1_conditions]
        ELSE IF _all_met(s2_conditions, 2) THEN
            [stage |-> "S2", confidence |-> "HIGH", trigger |-> s2_conditions]
        ELSE
            [stage |-> "S1", confidence |-> "LOW", trigger |-> s1_conditions]

\* the if/elif/else chain of determine: stage, confidence and trigger
ResolveStage(m) ==
    LET s0_conditions == _check_s0_conditions(m)
        s3_conditions == _check_s3_conditions(m)
        s2_conditions == _check_s2_conditions(m)
        s1_conditions == _check_s1_conditions(m)
    IN  IF _all_met(s0_conditions, 3) THEN
            [stage |-> "S0", confidence |-> "HIGH", trigger |-> s0_conditions]
        ELSE IF _all_met(s3_conditions, 2) THEN
            [stage |-> "S3", confidence |-> "HIGH", trigger |-> s3_conditions]
        ELSE IF _all_met(s2_conditions, 2) THEN
            [stage |-> "S2", confidence |-> "HIGH", trigger |-> s2_conditions]
        ELSE IF _any_met(s1_conditions) THEN
            [stage |-> "S1",
             confidence |-> IF m.a_growth_streak >= 2 THEN "HIGH" ELSE "MEDIUM",
             trigger |-> s1_conditions]
        ELSE
            [stage |-> "S1", confidence |-> "LOW", trigger |-> s1_conditions]

\* the dict copy of the dataclass (a_growth_streak as float)
_to_snapshot(m) == m

\* mutant: a danger latch, the stage stays S0 after a call that returned S0
DetermineLatchesS0(m) ==
    LET r == ResolveStage(m)
        latched == results # << >> /\ results[Len(results)].result.stage = "S0"
        stage == IF latched THEN "S0" ELSE r.stage
    IN  [stage |-> stage,
         confidence |-> r.confidence,
         trigger_conditions |-> r.trigger,
         transition_risks |-> _calculate_transition_risks(stage, m),
         metrics_snapshot |-> _to_snapshot(m)]

\* StageEngine.determine; determined_at (the clock) and the rationale text are
\* not part of the model
determine(m) ==
    LET r == ResolveStage(m)
    IN  [stage |-> r.stage,
         confidence |-> r.confidence,
         trigger_conditions |-> r.trigger,
         transition_risks |-> _calculate_transition_risks(r.stage, m),
         metrics_snapshot |-> _to_snapshot(m)]

\* ------------------------------------------------------------- stage machine
\* StageEngine has no __init__ and no instance attribute; an instance is a name.
Engines == {"e1", "e2"}

\* the snapshot of a call made in between by another caller: it satisfies S0
OtherSnapshot ==
    [DefaultMetrics EXCEPT !.m01_high = Some(290), !.b_qoq_deflation = Some(160),
                           !.c_spot_discount = Some(410)]

InitStage ==
    /\ metrics \in StageMetrics
    /\ results = << >>
    /\ signals = << >>
    /\ lastCall = [op |-> "none"]
    /\ _detector = None
    /\ batches = << >>

\* engine e classifies the snapshot; at most limit calls are recorded
Determine(e, limit) ==
    /\ Len(results) < limit
    /\ results' = Append(results,
                         [engine |-> e, input |-> metrics, result |-> determine(metrics)])
    /\ UNCHANGED <<metrics, signals, lastCall, _detector, batches>>

\* a call with another snapshot, on an engine of its own, in between
DetermineOther(limit) ==
    /\ Len(results) < limit
    /\ results' = Append(results,
                         [engine |-> "other", input |-> OtherSnapshot,
                          result |-> determine(OtherSnapshot)])
    /\ UNCHANGED <<metrics, signals, lastCall, _detector, batches>>

NextStage ==
    \/ \E e \in Engines : Determine(e, MaxCalls)
    \/ DetermineOther(MaxCalls)

SpecStage == InitStage /\ [][NextStage]_vars

\* the same machine with room for repeated calls
NextRepeat ==
    \/ \E e \in Engines : Determine(e, MaxRepeat)
    \/ DetermineOther(MaxRepeat)

SpecRepeat == InitStage /\ [][NextRepeat]_vars

\* ------------------------------------------------------------- SignalDetector
\* SignalDetector.THRESHOLDS, in hundredths
PRICE_MOVE_HIGH == 10
PRICE_MOVE_MEDIUM == 5
ADOPTION_INFLECTION_MEDIUM == 20
SPOT_DISCOUNT_CHANGE == 10
\* mutant: the thresholds are scanned from the highest down
ThresholdsDescending == <<100, 70, 30>>
M01_THRESHOLDS == <<30, 70, 100>>

\* abs(num / den) >= t / 100 for den # 0, without dividing
RatioAtLeast(num, den, t) == 100 * Abs(num) >= t * Abs(den)

\* Signal(...): the fields a call does not pass keep their defaults; title,
\* description, provider and created_at (texts and the clock) are left out.
\* change_percent is Some(<<num, den>>), the exact value num / den.
Signal(signal_type, severity, metric_id, current_value, previous_value, change_percent, threshold, sector, metadata) ==
    [signal_type |-> signal_type, severity |-> severity, metric_id |-> metric_id,
     current_value |-> current_value, previous_value |-> previous_value,
     change_percent |-> change_percent, threshold |-> threshold,
     sector |-> sector, metadata |-> metadata, is_read |-> FALSE]

NoMetadata == [direction |-> "", m01_high |-> None]

\* mutant: the HIGH tier starts strictly above 10%
PriceSignalStrictHigh(metric_id, current_price, previous_price, sector) ==
    IF previous_price = 0 THEN None
    ELSE LET diff == current_price - previous_price
         IN  IF 100 * Abs(diff) > PRICE_MOVE_HIGH * Abs(previous_price) THEN
                 Some(Signal("price_move", "HIGH", metric_id, current_price,
                             Some(previous_price), Some(<<diff * 100, previous_price>>),
                             None, Some(sector), NoMetadata))
             ELSE IF RatioAtLeast(diff, previous_price, PRICE_MOVE_MEDIUM) THEN
                 Some(Signal("price_move", "MEDIUM", metric_id, current_price,
                             Some(previous_price), Some(<<diff * 100, previous_price>>),
                             None, Some(sector), NoMetadata))
             ELSE None

\* mutant: the guard on previous_price == 0 is missing
PriceSignalNoGuard(metric_id, current_price, previous_price, sector) ==
    LET diff == current_price - previous_price
    IN  IF RatioAtLeast(diff, previous_price, PRICE_MOVE_HIGH) THEN
            Some(Signal("price_move", "HIGH", metric_id, current_price,
                        Some(previous_price), Some(<<diff * 100, previous_price>>),
                        None, Some(sector), NoMetadata))
        ELSE IF RatioAtLeast(diff, previous_price, PRICE_MOVE_MEDIUM) THEN
            Some(Signal("price_move", "MEDIUM", metric_id, current_price,
                        Some(previous_price), Some(<<diff * 100, previous_price>>),
                        None, Some(sector), NoMetadata))
        ELSE None

\* mutant: a change below 5% is reported with severity LOW
PriceSignalLowTier(metric_id, current_price, previous_price, sector) ==
    IF previous_price = 0 THEN None
    ELSE LET diff == current_price - previous_price
             severity == IF RatioAtLeast(diff, previous_price, PRICE_MOVE_HIGH)
                         THEN "HIGH"
                         ELSE IF RatioAtLeast(diff, previous_price, PRICE_MOVE_MEDIUM)
                         THEN "MEDIUM" ELSE "LOW"
         IN  Some(Signal("price_move", severity, metric_id, current_price,
                         Some(previous_price), Some(<<diff * 100, previous_price>>),
                         None, Some(sector), NoMetadata))

\* what detect_price_signal returns: None or Some(signal)
detect_price_signal(metric_id, current_price, previous_price, sector) ==
    IF previous_price = 0 THEN None
    ELSE LET diff == current_price - previous_price
         IN  IF RatioAtLeast(diff, previous_price, PRICE_MOVE_HIGH) THEN
                 Some(Signal("price_move", "HIGH", metric_id, current_price,
                             Some(previous_price), Some(<<diff * 100, previous_price>>),
                             None, Some(sector), NoMetadata))
             ELSE IF RatioAtLeast(diff, previous_price, PRICE_MOVE_MEDIUM) THEN
                 Some(Signal("price_move", "MEDIUM", metric_id, current_price,
                             Some(previous_price), Some(<<diff * 100, previous_price>>),
                             None, Some(sector), NoMetadata))
             ELSE None

CoverageSignal(direction, threshold, m01_low, m01_high, previous_m01_low) ==
    Signal("coverage_threshold", "HIGH", "m01_coverage", m01_low, previous_m01_low,
           None, Some(threshold), None,
           [direction |-> direction, m01_high |-> Some(m01_high)])

\* mutant: the upward test is inclusive at both ends
RECURSIVE CoverageScanInclusive(_, _, _, _)
CoverageScanInclusive(i, m01_low, m01_high, previous_m01_low) ==
    IF i > Len(M01_THRESHOLDS) THEN None
    ELSE LET threshold == M01_THRESHOLDS[i]
         IN  IF /\ previous_m01_low # None
                /\ previous_m01_low[1] <= threshold /\ threshold <= m01_low
             THEN Some(CoverageSignal("up", threshold, m01_low, m01_high,
                                      previous_m01_low))
             ELSE IF /\ previous_m01_low # None
                     /\ previous_m01_low[1] >= threshold /\ threshold > m01_low
             THEN Some(CoverageSignal("down", threshold, m01_low, m01_high,
                                      previous_m01_low))
             ELSE CoverageScanInclusive(i + 1, m01_low, m01_high, previous_m01_low)

\* mutant: the downward test is inclusive at both ends
RECURSIVE CoverageScanDownInclusive(_, _, _, _)
CoverageScanDownInclusive(i, m01_low, m01_high, previous_m01_low) ==
    IF i > Len(M01_THRESHOLDS) THEN None
    ELSE LET threshold == M01_THRESHOLDS[i]
         IN  IF /\ previous_m01_low # None
                /\ previous_m01_low[1] < threshold /\ threshold <= m01_low
             THEN Some(CoverageSignal("up", threshold, m01_low, m01_high,
                                      previous_m01_low))
             ELSE IF /\ previous_m01_low # None
                     /\ previous_m01_low[1] >= threshold /\ threshold >= m01_low
             THEN Some(CoverageSignal("down", threshold, m01_low, m01_high,
                                      previous_m01_low))
             ELSE CoverageScanDownInclusive(i + 1, m01_low, m01_high, previous_m01_low)

\* the loop "for threshold in thresholds", from the i-th threshold on
RECURSIVE CoverageScan(_, _, _, _)
CoverageScan(i, m01_low, m01_high, previous_m01_low) ==
    IF i > Len(M01_THRESHOLDS) THEN None
    ELSE LET threshold == M01_THRESHOLDS[i]
         IN  IF /\ previous_m01_low # None
                /\ previous_m01_low[1] < threshold /\ threshold <= m01_low
             THEN Some(CoverageSignal("up", threshold, m01_low, m01_high,
                                      previous_m01_low))
             ELSE IF /\ previous_m01_low # None
                     /\ previous_m01_low[1] >= threshold /\ threshold > m01_low
             THEN Some(CoverageSignal("down", threshold, m01_low, m01_high,
                                      previous_m01_low))
             ELSE CoverageScan(i + 1, m01_low, m01_high, previous_m01_low)

\* mutant: the crossing is judged on the upper bound of the ratio
CoverageThresholdOnHigh(m01_low, m01_high, previous_m01_low, previous_m01_high) ==
    CoverageScan(1, m01_high, m01_high, previous_m01_low)

\* previous_m01_high is accepted and never read
detect_coverage_threshold(m01_low, m01_high, previous_m01_low, previous_m01_high) ==
    CoverageScan(1, m01_low, m01_high, previous_m01_low)

\* mutant: the shift must exceed 10 points
SupplyDemandShiftStrict(current_spot_discount, previous_spot_discount) ==
    LET change == Abs(current_spot_discount - previous_spot_discount)
    IN  IF change <= SPOT_DISCOUNT_CHANGE THEN None
        ELSE Some(Signal("supply_demand_shift", "MEDIUM", "c_spot_discount",
                         current_spot_discount, Some(previous_spot_discount),
                         Some(<<change, 1>>), None, Some("C"), NoMetadata))

\* mutant: a shift already in the signal list is not reported again
SupplyDemandShiftOnce(current_spot_discount, previous_spot_discount) ==
    LET change == Abs(current_spot_discount - previous_spot_discount)
        seen == \E i \in 1..Len(signals) :
                   /\ signals[i].signal_type = "supply_demand_shift"
                   /\ signals[i].current_value = current_spot_discount
                   /\ signals[i].previous_value = Some(previous_spot_discount)
    IN  IF change < SPOT_DISCOUNT_CHANGE \/ seen THEN None
        ELSE Some(Signal("supply_demand_shift", "MEDIUM", "c_spot_discount",
                         current_spot_discount, Some(previous_spot_discount),
                         Some(<<change, 1>>), None, Some("C"), NoMetadata))

detect_supply_demand_shift(current_spot_discount, previous_spot_discount) ==
    LET change == Abs(current_spot_discount - previous_spot_discount)
    IN  IF change < SPOT_DISCOUNT_CHANGE THEN None
        ELSE Some(Signal("supply_demand_shift", "MEDIUM", "c_spot_discount",
                         current_spot_discount, Some(previous_spot_discount),
                         Some(<<change, 1>>), None, Some("C"), NoMetadata))

\* mutant: the change must exceed 20%
AdoptionInflectionStrict(metric_id, current_value, previous_value) ==
    IF previous_value = 0 THEN None
    ELSE LET diff == current_value - previous_value
         IN  IF 100 * Abs(diff) <= ADOPTION_INFLECTION_MEDIUM * Abs(previous_value)
             THEN None
             ELSE Some(Signal("adoption_inflection", "MEDIUM", metric_id, current_value,
                              Some(previous_value), Some(<<diff * 100, previous_value>>),
                              None, Some("A"), NoMetadata))

detect_adoption_inflection(metric_id, current_value, previous_value) ==
    IF previous_value = 0 THEN None
    ELSE LET diff == current_value - previous_value
         IN  IF ~RatioAtLeast(diff, previous_value, ADOPTION_INFLECTION_MEDIUM) THEN None
             ELSE Some(Signal("adoption_inflection", "MEDIUM", metric_id, current_value,
                              Some(previous_value), Some(<<diff * 100, previous_value>>),
                              None, Some("A"), NoMetadata))

\* ------------------------------------------------------------- detector machine
\* (current, previous) prices: changes of -5%, -2.5%, +7.5%, +10% on 40 and of
\* -10%, -4%, +10% on 100, and each current price after a previous price of 0
PriceInputs == ({38, 39, 43, 44} \X {0, 40}) \cup ({90, 96, 110} \X {0, 100})
\* m01_low now and before: below, on and between the thresholds, and above all
CoverageVals == {25, 30, 35, 70, 105}
M01HighArgs == {110}
PrevM01HighArgs == {None}
\* previous_m01_low: absent, 0, or any of the values above
CoveragePrevVals == {None, Some(0)} \cup {Some(v) : v \in CoverageVals}
\* spot discounts: shifts of 0, 1, 9 and 10 points, and shifts from 0
SpotDiscountInputs == {30, 39, 40} \X {0, 30, 40}
\* adoption: changes of -20%, -18%, +20% on 50, and a previous value of 0
AdoptionInputs == {40, 41, 60} \X {0, 50}

InitDetector ==
    /\ metrics = DefaultMetrics
    /\ results = << >>
    /\ signals = << >>
    /\ lastCall = [op |-> "none"]
    /\ _detector = None
    /\ batches = << >>

\* mutant: a new signal is inserted at the head of the list
RecordPrepend(ret) == IF ret = None THEN signals ELSE <<ret[1]>> \o signals

\* "self.signals.append(signal); return signal" or "return None"
Record(ret) == IF ret = None THEN signals ELSE Append(signals, ret[1])

DetectPriceSignal ==
    /\ Len(signals) < MaxSignals
    /\ \E in \in PriceInputs :
          LET ret == detect_price_signal("sku", in[1], in[2], "B")
          IN  /\ signals' = Record(ret)
              /\ lastCall' = [op |-> "detect_price_signal", current |-> in[1],
                              previous |-> in[2], ret |-> ret]
    /\ UNCHANGED <<metrics, results, _detector, batches>>

DetectCoverageThreshold ==
    /\ Len(signals) < MaxSignals
    /\ \E now \in CoverageVals, prev \in CoveragePrevVals,
          high \in M01HighArgs, prevHigh \in PrevM01HighArgs :
          LET ret == detect_coverage_threshold(now, high, prev, prevHigh)
          IN  /\ signals' = Record(ret)
              /\ lastCall' = [op |-> "detect_coverage_threshold", current |-> now,
                              previous |-> prev, m01_high |-> high,
                              previous_m01_high |-> prevHigh, ret |-> ret]
    /\ UNCHANGED <<metrics, results, _detector, batches>>

DetectSupplyDemandShift ==
    /\ Len(signals) < MaxSignals
    /\ \E in \in SpotDiscountInputs :
          LET ret == detect_supply_demand_shift(in[1], in[2])
          IN  /\ signals' = Record(ret)
              /\ lastCall' = [op |-> "detect_supply_demand_shift", current |-> in[1],
                              previous |-> in[2], ret |-> ret]
    /\ UNCHANGED <<metrics, results, _detector, batches>>

DetectAdoptionInflection ==
    /\ Len(signals) < MaxSignals
    /\ \E in \in AdoptionInputs :
          LET ret == detect_adoption_inflection("a_metric", in[1], in[2])
          IN  /\ signals' = Record(ret)
              /\ lastCall' = [op |-> "detect_adoption_inflection", current |-> in[1],
                              previous |-> in[2], ret |-> ret]
    /\ UNCHANGED <<metrics, results, _detector, batches>>

\* mutant: mark_as_read flips the flag
MarkAsReadToggles ==
    /\ \E i \in 1..Len(signals) :
          /\ signals' = [signals EXCEPT ![i].is_read = ~@]
          /\ lastCall' = [op |-> "mark_as_read", index |-> i]
    /\ UNCHANGED <<metrics, results, _detector, batches>>

\* mark_as_read on a signal of the list
MarkAsRead ==
    /\ \E i \in 1..Len(signals) :
          /\ signals' = [signals EXCEPT ![i].is_read = TRUE]
          /\ lastCall' = [op |-> "mark_as_read", index |-> i]
    /\ UNCHANGED <<metrics, results, _detector, batches>>

NextDetector ==
    \/ DetectPriceSignal
    \/ DetectCoverageThreshold
    \/ DetectSupplyDemandShift
    \/ DetectAdoptionInflection
    \/ MarkAsRead

SpecDetector == InitDetector /\ [][NextDetector]_vars

\* ------------------------------------------------------------- coverage stream
\* A caller feeds a stream of m01_low observations to detect_coverage_threshold
\* as consecutive pairs: the previous value of a call is the current value of
\* the call before it, and the first call has no previous value.
\* observations below, on and above 0.30, the last one above 0.70 as well
StreamVals == {25, 30, 75}
StreamM01High == {80, 110}
StreamPrevM01High == {None, Some(80)}

InitStream ==
    /\ metrics = DefaultMetrics
    /\ results = << >>
    /\ signals = << >>
    /\ lastCall = [op |-> "none"]
    /\ _detector = None
    /\ batches = << >>

ObserveCoverage ==
    /\ Len(signals) < MaxReports
    /\ \E now \in StreamVals, high \in StreamM01High, prevHigh \in StreamPrevM01High :
          LET prev == IF lastCall.op = "none" THEN None ELSE Some(lastCall.current)
              ret == detect_coverage_threshold(now, high, prev, prevHigh)
          IN  /\ signals' = Record(ret)
              /\ lastCall' = [op |-> "detect_coverage_threshold", current |-> now,
                              previous |-> prev, m01_high |-> high,
                              previous_m01_high |-> prevHigh, ret |-> ret]
    /\ UNCHANGED <<metrics, results, _detector, batches>>

NextStream == ObserveCoverage

SpecStream == InitStream /\ [][NextStream]_vars

\* ------------------------------------------------------------- detect_all_signals
\* A price row is a dict with provider, sku_id and an input_price or an
\* hourly_rate.  The module-level _detector is None or Some(detector), a
\* detector being the record of its signals list.  detect_all_signals has no
\* suspension point, so a call is one step; callers run one after another.
Row(provider, sku_id, input_price, hourly_rate) == [provider |-> provider, sku_id |-> sku_id, input_price |-> input_price, hourly_rate |-> hourly_rate]
In(sku_id, price) == Row("p", sku_id, Some(price), None)
Hr(sku_id, rate) == Row("p", sku_id, None, Some(rate))

\* truthiness of dict.get(key): None and 0 are falsy
Truthy(x) == x # None /\ x[1] # 0

\* row.get("input_price") or row.get("hourly_rate") or 0
PriceOf(row) ==
    IF Truthy(row.input_price) THEN row.input_price[1]
    ELSE IF Truthy(row.hourly_rate) THEN row.hourly_rate[1]
    ELSE 0

\* prev_lookup.get(key): the last row of previous_prices with that key
\* (a later row overwrites an earlier one in the dict comprehension)
RECURSIVE PrevLookup(_, _, _)
PrevLookup(previous_prices, provider, sku_id) ==
    IF previous_prices = << >> THEN None
    ELSE LET last == previous_prices[Len(previous_prices)]
         IN  IF last.provider = provider /\ last.sku_id = sku_id THEN Some(last)
             ELSE PrevLookup(SubSeq(previous_prices, 1, Len(previous_prices) - 1),
                             provider, sku_id)

\* get_detector(): the global instance, made on first use
get_detector == IF _detector = None THEN [signals |-> << >>] ELSE _detector[1]

\* the loop "for current in prices" from row i on, on the signal list sigs
RECURSIVE DetectLoop(_, _, _, _)
DetectLoop(sigs, prices, previous_prices, i) ==
    IF i > Len(prices) THEN sigs
    ELSE LET current == prices[i]
             previous == PrevLookup(previous_prices, current.provider, current.sku_id)
             curr_price == PriceOf(current)
             prev_price == IF previous = None THEN 0 ELSE PriceOf(previous[1])
             sector == IF Truthy(current.hourly_rate) THEN "C" ELSE "B"
             ret == IF previous # None /\ curr_price > 0 /\ prev_price > 0
                    THEN detect_price_signal(current.sku_id, curr_price, prev_price, sector)
                    ELSE None
         IN  DetectLoop(IF ret = None THEN sigs ELSE Append(sigs, ret[1]),
                        prices, previous_prices, i + 1)

RECURSIVE Reverse(_)
Reverse(seq) == IF seq = << >> THEN << >> ELSE Append(Reverse(Tail(seq)), Head(seq))

\* sorted(self.signals, key=created_at, reverse=True)[:limit]; created_at grows
\* with the position in the list
get_recent_signals(sigs, limit) ==
    LET recent == Reverse(sigs)
    IN  IF Len(recent) <= limit THEN recent ELSE SubSeq(recent, 1, limit)

\* SignalDetector.to_dict, on the fields the model keeps
to_dict(signal) ==
    [signal_type |-> signal.signal_type, severity |-> signal.severity,
     metric_id |-> signal.metric_id, current_value |-> signal.current_value,
     previous_value |-> signal.previous_value,
     change_percent |-> signal.change_percent, threshold |-> signal.threshold,
     sector |-> signal.sector, is_read |-> signal.is_read]

ToDicts(sigs) == [i \in 1..Len(sigs) |-> to_dict(sigs[i])]

\* detect_all_signals on detector: the detector afterwards and the list returned
detect_all_signals(detector, prices, previous_prices) ==
    IF previous_prices = << >> THEN [detector |-> detector, returned |-> << >>]
    ELSE LET sigs == DetectLoop(detector.signals, prices, previous_prices, 1)
         IN  [detector |-> [signals |-> sigs],
              returned |-> ToDicts(get_recent_signals(sigs, 10))]

Callers == {"api", "task"}
\* batches of current prices: +10%, unchanged, an hourly rate 10% down, another
\* sku, two rows, and a row without a price
PriceLists ==
    {<<In("a", 110)>>, <<In("a", 100)>>, <<Hr("a", 90)>>, <<In("b", 110)>>,
     <<In("a", 110), In("b", 96)>>, <<In("a", 0)>>}
\* previous_prices: missing or empty, or one row per sku
PreviousLists == {<< >>, <<In("a", 100), In("b", 100)>>}

InitShared ==
    /\ metrics = DefaultMetrics
    /\ results = << >>
    /\ signals = << >>
    /\ lastCall = [op |-> "none"]
    /\ _detector = None
    /\ batches = << >>

DetectAllSignals(caller) ==
    /\ Len(batches) < MaxBatches
    /\ \E prices \in PriceLists, previous_prices \in PreviousLists :
          LET out == detect_all_signals(get_detector, prices, previous_prices)
          IN  /\ _detector' = Some(out.detector)
              /\ batches' = Append(batches,
                                   [caller |-> caller, prices |-> prices,
                                    previous_prices |-> previous_prices,
                                    returned |-> out.returned])
    /\ UNCHANGED <<metrics, results, signals, lastCall>>

NextShared == \E caller \in Callers : DetectAllSignals(caller)

SpecShared == InitShared /\ [][NextShared]_vars

\* ------------------------------------------------------------- claims: StageEngine
\* The rule sets as the specification words them, read off the raw snapshot.
B2N(b) == IF b THEN 1 ELSE 0
Has(x) == x # None

S0True(m) ==
    B2N(Has(m.m01_high) /\ m.m01_high[1] < 300)
    + B2N(Has(m.b_qoq_deflation) /\ m.b_qoq_deflation[1] > 150)
    + B2N(Has(m.c_spot_discount) /\ m.c_spot_discount[1] > 400)
S0False(m) ==
    B2N(Has(m.m01_high) /\ ~(m.m01_high[1] < 300))
    + B2N(Has(m.b_qoq_deflation) /\ ~(m.b_qoq_deflation[1] > 150))
    + B2N(Has(m.c_spot_discount) /\ ~(m.c_spot_discount[1] > 400))
S3True(m) ==
    B2N(Has(m.m01_low) /\ m.m01_low[1] > 1000)
    + B2N(Has(m.d3_margin_qoq) /\ Abs(m.d3_margin_qoq[1]) < 30)
S3False(m) ==
    B2N(Has(m.m01_low) /\ ~(m.m01_low[1] > 1000))
    + B2N(Has(m.d3_margin_qoq) /\ ~(Abs(m.d3_margin_qoq[1]) < 30))
S2True(m) ==
    B2N(Has(m.m01_low) /\ m.m01_low[1] > 700)
    + B2N(Has(m.c_rental_qoq) /\ Abs(m.c_rental_qoq[1]) < 50)
    + B2N(Has(m.e_supply_tightness) /\ m.e_supply_tightness[1] < 800)
S2False(m) ==
    B2N(Has(m.m01_low) /\ ~(m.m01_low[1] > 700))
    + B2N(Has(m.c_rental_qoq) /\ ~(Abs(m.c_rental_qoq[1]) < 50))
    + B2N(Has(m.e_supply_tightness) /\ ~(m.e_supply_tightness[1] < 800))
S1Any(m) ==
    \/ Has(m.m01_low) /\ Has(m.m01_high) /\ 300 <= m.m01_high[1] /\ m.m01_low[1] <= 700
    \/ m.a_growth_streak >= 2

S0Wins(m) == S0False(m) = 0 /\ S0True(m) >= 3
S3Wins(m) == S3False(m) = 0 /\ S3True(m) >= 2
S2Wins(m) == S2False(m) = 0 /\ S2True(m) >= 2

Calls == 1..Len(results)

\* C1: determine resolves the stage by first match in the order S0 (all present
\* facts true, at least 3 true, HIGH), S3 (all true, at least 2, HIGH), S2 (all
\* true, at least 2, HIGH), S1 when any S1 fact is true, else S1 with LOW; S3
\* wins over S2 when both are satisfied and S0 is not.
C1_PriorityResolution ==
    \A i \in Calls :
        LET m == results[i].input
            r == results[i].result
        IN  /\ S0Wins(m) => r.stage = "S0" /\ r.confidence = "HIGH"
            /\ ~S0Wins(m) /\ S3Wins(m) => r.stage = "S3" /\ r.confidence = "HIGH"
            /\ ~S0Wins(m) /\ ~S3Wins(m) /\ S2Wins(m) =>
                    r.stage = "S2" /\ r.confidence = "HIGH"
            /\ ~S0Wins(m) /\ ~S3Wins(m) /\ ~S2Wins(m) /\ S1Any(m) => r.stage = "S1"
            /\ ~S0Wins(m) /\ ~S3Wins(m) /\ ~S2Wins(m) /\ ~S1Any(m) =>
                    r.stage = "S1" /\ r.confidence = "LOW"

\* a snapshot that satisfies both S3 and S2 but not S0 was classified S3
C1_Witness ==
    \E i \in Calls :
        /\ ~S0Wins(results[i].input)
        /\ S3Wins(results[i].input)
        /\ S2Wins(results[i].input)
        /\ results[i].result.stage = "S3"

\* C2: when m01_high, price_deflation_qoq and spot_discount are all present with
\* m01_high < 0.30, deflation > 0.15 and discount > 0.40, the result is S0 with
\* HIGH, whatever the other fields hold.
C2_S0NeverMasked ==
    \A i \in Calls :
        LET m == results[i].input
        IN  (/\ Has(m.m01_high) /\ m.m01_high[1] < 300
             /\ Has(m.b_qoq_deflation) /\ m.b_qoq_deflation[1] > 150
             /\ Has(m.c_spot_discount) /\ m.c_spot_discount[1] > 400)
            => results[i].result.stage = "S0" /\ results[i].result.confidence = "HIGH"

\* an S0 snapshot whose other fields satisfy S3 and S2 as well was classified S0
C2_Witness ==
    \E i \in Calls :
        /\ S0Wins(results[i].input)
        /\ S3Wins(results[i].input)
        /\ S2Wins(results[i].input)
        /\ results[i].result.stage = "S0"
        /\ results[i].result.confidence = "HIGH"

AllAbsent(m) ==
    /\ m.m01_low = None /\ m.m01_high = None /\ m.b_qoq_deflation = None
    /\ m.c_spot_discount = None /\ m.c_rental_qoq = None
    /\ m.d3_margin_qoq = None /\ m.e_supply_tightness = None
    /\ m.a_growth_streak = 0

\* C3: the snapshot with every field absent (streak 0) is classified S1 with LOW.
C3_TotalFallback ==
    \A i \in Calls :
        AllAbsent(results[i].input) =>
            results[i].result.stage = "S1" /\ results[i].result.confidence = "LOW"

C3_Witness ==
    \E i \in Calls :
        /\ AllAbsent(results[i].input)
        /\ results[i].result.stage = "S1"
        /\ results[i].result.confidence = "LOW"

\* C4: determine is total: a call is possible for every snapshot, and every
\* result is a StageResult whose stage is one of S0, S1, S2, S3.
C4_Total ==
    /\ results = << >> => \A e \in Engines : ENABLED Determine(e, MaxCalls)
    /\ \A i \in Calls :
          LET r == results[i].result
          IN  /\ r.stage \in StageCode
              /\ r.confidence \in Confidence
              /\ \A k \in DOMAIN r.trigger_conditions :
                    r.trigger_conditions[k] \in BOOLEAN
              /\ r.metrics_snapshot = results[i].input

\* a snapshot with nothing but the streak, and one with some fields present and
\* others absent, both got a stage
C4_Witness ==
    /\ \E i \in Calls :
          /\ results[i].input.m01_low = None /\ results[i].input.m01_high = None
          /\ results[i].input.b_qoq_deflation = None
          /\ results[i].input.c_spot_discount = None
          /\ results[i].input.c_rental_qoq = None
          /\ results[i].input.d3_margin_qoq = None
          /\ results[i].input.e_supply_tightness = None
          /\ results[i].result.stage \in StageCode
    /\ \E i \in Calls :
          /\ Has(results[i].input.m01_high) /\ Has(results[i].input.c_spot_discount)
          /\ ~Has(results[i].input.m01_low)
          /\ results[i].result.stage \in StageCode

C6_NoVacuousWin ==
    \A i \in Calls :
        LET m == results[i].input
            st == results[i].result.stage
        IN  /\ (~Has(m.m01_high) /\ ~Has(m.b_qoq_deflation) /\ ~Has(m.c_spot_discount))
                  => st # "S0"
            /\ (~Has(m.m01_low) /\ ~Has(m.d3_margin_qoq)) => st # "S3"
            /\ (~Has(m.m01_low) /\ ~Has(m.c_rental_qoq) /\ ~Has(m.e_supply_tightness))
                  => st # "S2"

\* a snapshot with no S0, S3 or S2 input at all fell through to S1
C6_Witness ==
    \E i \in Calls :
        LET m == results[i].input
        IN  /\ ~Has(m.m01_high) /\ ~Has(m.b_qoq_deflation) /\ ~Has(m.c_spot_discount)
            /\ ~Has(m.m01_low) /\ ~Has(m.d3_margin_qoq)
            /\ ~Has(m.c_rental_qoq) /\ ~Has(m.e_supply_tightness)
            /\ results[i].result.stage = "S1"

\* C7: the keys of transition_risks are {to_S0, to_S2} for S1, {to_S3, to_S1}
\* for S2 and none for S0 and S3; the current stage is never a key.
C7_RiskKeys ==
    \A i \in Calls :
        LET r == results[i].result
            keys == DOMAIN r.transition_risks
        IN  /\ r.stage = "S1" => keys = {"to_S0", "to_S2"}
            /\ r.stage = "S2" => keys = {"to_S3", "to_S1"}
            /\ r.stage \in {"S0", "S3"} => keys = {}
            /\ r.stage = "S0" => "to_S0" \notin keys
            /\ r.stage = "S1" => "to_S1" \notin keys
            /\ r.stage = "S2" => "to_S2" \notin keys
            /\ r.stage = "S3" => "to_S3" \notin keys

\* an S0 result without risks and an S3 result without risks in one log
C7_Witness ==
    /\ \E i \in Calls : results[i].result.stage = "S0"
                        /\ DOMAIN results[i].result.transition_risks = {}
    /\ \E i \in Calls : results[i].result.stage = "S3"
                        /\ DOMAIN results[i].result.transition_risks = {}

CrossedUp(prev, now) == {t \in {30, 70, 100} : prev < t /\ t <= now}
CrossedDown(prev, now) == {t \in {30, 70, 100} : prev >= t /\ t > now}
Lowest(S) == CHOOSE t \in S : \A u \in S : t <= u

\* C9: detect_coverage_threshold reports, as one HIGH COVERAGE_THRESHOLD
\* signal, the lowest of the thresholds 0.30, 0.70, 1.00 crossed between the
\* previous and the current m01_low, with its direction (up when
\* prev < t <= now, down when prev >= t > now), and returns nothing when no
\* threshold is crossed or the previous value is absent.
C9_FirstThresholdCrossed ==
    lastCall.op = "detect_coverage_threshold" =>
        LET ret == lastCall.ret
            now == lastCall.current
        IN  IF lastCall.previous = None THEN ret = None
            ELSE LET prev == lastCall.previous[1]
                     crossed == CrossedUp(prev, now) \cup CrossedDown(prev, now)
                 IN  IF crossed = {} THEN ret = None
                     ELSE /\ ret # None
                          /\ ret[1].signal_type = "coverage_threshold"
                          /\ ret[1].severity = "HIGH"
                          /\ ret[1].threshold = Some(Lowest(crossed))
                          /\ ret[1].metadata.direction =
                                IF Lowest(crossed) \in CrossedUp(prev, now)
                                THEN "up" ELSE "down"

\* a step that crosses several thresholds was reported with the lowest of them
C9_Witness ==
    /\ lastCall.op = "detect_coverage_threshold"
    /\ lastCall.previous # None
    /\ Cardinality(CrossedDown(lastCall.previous[1], lastCall.current)) >= 2
    /\ lastCall.ret # None
    /\ lastCall.ret[1].threshold = Some(30)
    /\ lastCall.ret[1].metadata.direction = "down"
    /\ signals # << >>
    /\ signals[Len(signals)] = lastCall.ret[1]

C12_AnyDetectorZeroPrevious ==
    /\ (lastCall.op \in {"detect_price_signal", "detect_supply_demand_shift",
                         "detect_adoption_inflection"} /\ lastCall.previous = 0)
          => lastCall.ret = None
    /\ (lastCall.op = "detect_coverage_threshold" /\ lastCall.previous = Some(0))
          => lastCall.ret = None

\* C12 (amended): the two percentage-change detectors (price move, adoption
\* inflection) return no signal when the previous value is 0, whatever the
\* current value; the other two divide by nothing and treat 0 as an ordinary
\* previous value: a shift of at least 0.10 from 0, and a threshold crossed
\* from 0, are reported.
C12_DivisionGuard ==
    /\ (lastCall.op \in {"detect_price_signal", "detect_adoption_inflection"}
        /\ lastCall.previous = 0) => lastCall.ret = None
    /\ (lastCall.op = "detect_supply_demand_shift" /\ lastCall.previous = 0)
          => (lastCall.ret # None <=> Abs(lastCall.current) >= 10)
    /\ (lastCall.op = "detect_coverage_threshold" /\ lastCall.previous = Some(0))
          => (lastCall.ret # None <=> lastCall.current >= 30)

\* a price call with previous 0 and a large current price returned nothing and
\* left the list empty
C12_Witness ==
    /\ lastCall.op = "detect_price_signal"
    /\ lastCall.previous = 0
    /\ lastCall.current = 110
    /\ lastCall.ret = None
    /\ signals = << >>

\* the trigger of a signal's type, on the values the signal itself records
TriggerMet(s) ==
    LET c == s.current_value
    IN  /\ s.previous_value # None
        /\ LET p == s.previous_value[1]
           IN  CASE s.signal_type = "price_move" ->
                        p # 0 /\ 100 * Abs(c - p) >= 5 * Abs(p)
                 [] s.signal_type = "adoption_inflection" ->
                        p # 0 /\ 100 * Abs(c - p) >= 20 * Abs(p)
                 [] s.signal_type = "supply_demand_shift" -> Abs(c - p) >= 10
                 [] s.signal_type = "coverage_threshold" ->
                        /\ s.threshold # None
                        /\ \/ s.metadata.direction = "up"
                              /\ p < s.threshold[1] /\ s.threshold[1] <= c
                           \/ s.metadata.direction = "down"
                              /\ p >= s.threshold[1] /\ s.threshold[1] > c
                 [] OTHER -> FALSE

\* C13: every Signal the detector holds satisfies the trigger of its type on
\* its own current and previous values: PRICE_MOVE |change| >= 0.05,
\* ADOPTION_INFLECTION |change| >= 0.20, SUPPLY_DEMAND_SHIFT a difference
\* >= 0.10, COVERAGE_THRESHOLD its threshold between previous and current in
\* the reported direction.
C13_SignalsMeetTrigger ==
    \A i \in 1..Len(signals) : TriggerMet(signals[i])

\* the list holds a price move of exactly 5% and a coverage crossing
C13_Witness ==
    /\ Len(signals) = 2
    /\ signals[1].signal_type = "price_move"
    /\ 100 * Abs(signals[1].current_value - signals[1].previous_value[1])
          = 5 * Abs(signals[1].previous_value[1])
    /\ signals[2].signal_type = "coverage_threshold"
    /\ TriggerMet(signals[1]) /\ TriggerMet(signals[2])

DetectOps ==
    {"detect_price_signal", "detect_coverage_threshold",
     "detect_supply_demand_shift", "detect_adoption_inflection"}

\* C14: a detector call produces at most one Signal: a call that returns a
\* Signal appends exactly that signal at the end of the list, a call that
\* returns nothing leaves the list unchanged, and the signals already in the
\* list keep their place and their contents.
C14_AtMostOneAppended ==
    [][lastCall'.op \in DetectOps =>
          signals' = IF lastCall'.ret = None THEN signals
                     ELSE Append(signals, lastCall'.ret[1])]_vars

\* a detector call has just appended its signal behind a signal of another type
C14_Witness ==
    /\ lastCall.op \in DetectOps
    /\ lastCall.ret # None
    /\ Len(signals) = 2
    /\ signals[2] = lastCall.ret[1]
    /\ signals[1].signal_type # signals[2].signal_type

\* the signal type a detector produces
OpType(op) ==
    CASE op = "detect_price_signal" -> "price_move"
      [] op = "detect_coverage_threshold" -> "coverage_threshold"
      [] op = "detect_supply_demand_shift" -> "supply_demand_shift"
      [] op = "detect_adoption_inflection" -> "adoption_inflection"

\* the previous value of the last call, as a Signal stores it
CallPrevious ==
    IF lastCall.op = "detect_coverage_threshold" THEN lastCall.previous
    ELSE Some(lastCall.previous)

\* signal s came from a call of the last call's detector with its arguments
SameArguments(s) ==
    /\ s.signal_type = OpType(lastCall.op)
    /\ s.current_value = lastCall.current
    /\ s.previous_value = CallPrevious

C16_ReadFlagOnlyByMarkAsRead ==
    [][/\ Len(signals') >= Len(signals)
       /\ \A i \in 1..Len(signals) : signals[i].is_read => signals'[i].is_read
       /\ \A i \in (Len(signals) + 1)..Len(signals') : ~signals'[i].is_read
       /\ lastCall'.op \in DetectOps =>
             \A i \in 1..Len(signals) : signals'[i].is_read = signals[i].is_read
       /\ lastCall'.op = "mark_as_read" =>
             /\ signals'[lastCall'.index].is_read
             /\ signals' = [signals EXCEPT ![lastCall'.index].is_read = TRUE]]_vars

\* a detector call has appended an unread signal behind a signal that was
\* marked read before the call, and the earlier signal is still read
C16_Witness ==
    /\ lastCall.op \in DetectOps
    /\ lastCall.ret # None
    /\ Len(signals) = 2
    /\ signals[1].is_read
    /\ ~signals[2].is_read
    /\ signals[1].signal_type # signals[2].signal_type

\* how many of the fields a stage's rule set reads are absent
S0Absent(m) ==
    B2N(~Has(m.m01_high)) + B2N(~Has(m.b_qoq_deflation)) + B2N(~Has(m.c_spot_discount))
S3Absent(m) == B2N(~Has(m.m01_low)) + B2N(~Has(m.d3_margin_qoq))
S2Absent(m) ==
    B2N(~Has(m.m01_low)) + B2N(~Has(m.c_rental_qoq)) + B2N(~Has(m.e_supply_tightness))

\* C17 as stated: determine never returns S0, S3 or S2 for a snapshot in which
\* any field of that stage's rule set is absent.  Violated for S2: its rule set
\* has three fields and needs two true facts.
C17_NoStageWithAbsentField ==
    \A i \in Calls :
        LET m == results[i].input
            r == results[i].result
        IN  /\ r.stage = "S0" => S0Absent(m) = 0
            /\ r.stage = "S3" => S3Absent(m) = 0
            /\ r.stage = "S2" => S2Absent(m) = 0

\* C17: an absent field contributes no fact: determine never returns S0 or S3
\* for a snapshot in which a field of that stage's rule set is absent, and never
\* returns S2 when two or more of S2's three fields are absent; with exactly one
\* of them absent S2 is returned when the two present facts are true and
\* neither S0 nor S3 is satisfied.
C17_AbsentFieldContributesNoFact ==
    \A i \in Calls :
        LET m == results[i].input
            r == results[i].result
        IN  /\ r.stage = "S0" => S0Absent(m) = 0
            /\ r.stage = "S3" => S3Absent(m) = 0
            /\ r.stage = "S2" => S2Absent(m) <= 1
            /\ (S2Absent(m) = 1 /\ S2True(m) = 2 /\ ~S0Wins(m) /\ ~S3Wins(m))
                  => r.stage = "S2"

\* a snapshot without e_supply_tightness whose m01_low and c_rental_qoq facts
\* are true was classified S2
C17_Witness ==
    \E i \in Calls :
        /\ ~Has(results[i].input.e_supply_tightness)
        /\ S2Absent(results[i].input) = 1
        /\ S2True(results[i].input) = 2
        /\ results[i].result.stage = "S2"

\* how many of the four winning conditions a snapshot satisfies
WinningCount(m) == B2N(S0Wins(m)) + B2N(S3Wins(m)) + B2N(S2Wins(m)) + B2N(S1Any(m))

\* C18 as stated: the four rule sets are mutually exclusive, no snapshot
\* satisfies two of the four winning conditions.  Violated: the rule sets read
\* different fields and overlap.
C18_RuleSetsExclusive ==
    \A i \in Calls : WinningCount(results[i].input) <= 1

\* C18: the winning conditions of the four rule sets can hold together; the
\* result is made unique by the fixed priority S0, S3, S2, S1: a stage is
\* returned only when its own condition holds (S1 also as the fallback) and no
\* condition of higher priority does.
C18_ExclusiveByPriority ==
    \A i \in Calls :
        LET m == results[i].input
            r == results[i].result
        IN  /\ r.stage = "S0" => S0Wins(m)
            /\ r.stage = "S3" => S3Wins(m) /\ ~S0Wins(m)
            /\ r.stage = "S2" => S2Wins(m) /\ ~S0Wins(m) /\ ~S3Wins(m)
            /\ r.stage = "S1" => ~S0Wins(m) /\ ~S3Wins(m) /\ ~S2Wins(m)

\* a snapshot that satisfies all four winning conditions was classified S0
C18_Witness ==
    \E i \in Calls :
        /\ WinningCount(results[i].input) = 4
        /\ results[i].result.stage = "S0"

\* the m01_transition fact: present and true
M01Transition(m) ==
    Has(m.m01_low) /\ Has(m.m01_high) /\ 300 <= m.m01_high[1] /\ m.m01_low[1] <= 700

\* C19: an S1 result has confidence HIGH iff a_growth_streak >= 2, MEDIUM iff
\* the streak is below 2 and m01_transition is present and true, LOW iff no S1
\* fact is true; every S0, S2 or S3 result has confidence HIGH, so LOW and
\* MEDIUM occur only with stage S1.
C19_Confidence ==
    \A i \in Calls :
        LET m == results[i].input
            r == results[i].result
        IN  /\ r.stage = "S1" =>
                  /\ r.confidence = "HIGH" <=> m.a_growth_streak >= 2
                  /\ r.confidence = "MEDIUM" <=> (m.a_growth_streak < 2 /\ M01Transition(m))
                  /\ r.confidence = "LOW" <=>
                        (m.a_growth_streak < 2 /\ ~M01Transition(m))
            /\ r.stage \in {"S0", "S2", "S3"} => r.confidence = "HIGH"
            /\ r.confidence \in {"LOW", "MEDIUM"} => r.stage = "S1"

\* an S1 result for a snapshot in the transition band with a streak of 1 has
\* confidence MEDIUM
C19_Witness ==
    \E i \in Calls :
        /\ results[i].result.stage = "S1"
        /\ results[i].input.a_growth_streak = 1
        /\ M01Transition(results[i].input)
        /\ results[i].result.confidence = "MEDIUM"

\* the fact names of a stage's rule set
StageKeys(stage) ==
    CASE stage = "S0" -> {"m01_too_low", "price_collapse", "capacity_excess"}
      [] stage = "S3" -> {"m01_sustainable", "margin_stable"}
      [] stage = "S2" -> {"m01_healthy", "rental_stable", "supply_stable"}
      [] stage = "S1" -> {"m01_transition", "adoption_growing"}

\* the input field(s) of a fact are present in snapshot m
FieldPresent(k, m) ==
    CASE k = "m01_too_low" -> Has(m.m01_high)
      [] k = "price_collapse" -> Has(m.b_qoq_deflation)
      [] k = "capacity_excess" -> Has(m.c_spot_discount)
      [] k = "m01_sustainable" -> Has(m.m01_low)
      [] k = "margin_stable" -> Has(m.d3_margin_qoq)
      [] k = "m01_healthy" -> Has(m.m01_low)
      [] k = "rental_stable" -> Has(m.c_rental_qoq)
      [] k = "supply_stable" -> Has(m.e_supply_tightness)
      [] k = "m01_transition" -> Has(m.m01_low) /\ Has(m.m01_high)
      [] k = "adoption_growing" -> TRUE

\* the value of a fact whose input field(s) are present
FactValue(k, m) ==
    CASE k = "m01_too_low" -> m.m01_high[1] < 300
      [] k = "price_collapse" -> m.b_qoq_deflation[1] > 150
      [] k = "capacity_excess" -> m.c_spot_discount[1] > 400
      [] k = "m01_sustainable" -> m.m01_low[1] > 1000
      [] k = "margin_stable" -> Abs(m.d3_margin_qoq[1]) < 30
      [] k = "m01_healthy" -> m.m01_low[1] > 700
      [] k = "rental_stable" -> Abs(m.c_rental_qoq[1]) < 50
      [] k = "supply_stable" -> m.e_supply_tightness[1] < 800
      [] k = "m01_transition" -> 300 <= m.m01_high[1] /\ m.m01_low[1] <= 700
      [] k = "adoption_growing" -> m.a_growth_streak >= 2

\* C20: trigger_conditions is exactly the fact map of the returned stage's rule
\* set (S1's in the LOW fallback): it has a key for a fact of that rule set iff
\* the fact's input field(s) are present, each key holds the fact's value, and
\* it holds no fact of another stage.
C20_TriggerConditions ==
    \A i \in Calls :
        LET m == results[i].input
            r == results[i].result
        IN  /\ DOMAIN r.trigger_conditions =
                  {k \in StageKeys(r.stage) : FieldPresent(k, m)}
            /\ \A k \in DOMAIN r.trigger_conditions :
                  r.trigger_conditions[k] = FactValue(k, m)

\* an S1 LOW fallback whose m01_low is absent carries adoption_growing = FALSE
\* alone, although the snapshot has fields of the other rule sets
C20_Witness ==
    \E i \in Calls :
        /\ results[i].result.stage = "S1"
        /\ results[i].result.confidence = "LOW"
        /\ ~Has(results[i].input.m01_low)
        /\ Has(results[i].input.m01_high)
        /\ Has(results[i].input.c_rental_qoq)
        /\ DOMAIN results[i].result.trigger_conditions = {"adoption_growing"}
        /\ ~results[i].result.trigger_conditions["adoption_growing"]

\* C21: for an S1 result, transition_risks["to_S0"] has conditions_met equal to
\* the number of S0 facts that are present and true, conditions_total = 3, and
\* probability "high" iff conditions_met >= 2, otherwise "low".
C21_RiskToS0 ==
    \A i \in Calls :
        LET m == results[i].input
            r == results[i].result
        IN  r.stage = "S1" =>
                LET risk == r.transition_risks["to_S0"]
                IN  /\ risk.conditions_met = S0True(m)
                    /\ risk.conditions_total = 3
                    /\ risk.probability = IF S0True(m) >= 2 THEN "high" ELSE "low"

\* an S1 result whose snapshot has exactly two true S0 facts, the third being
\* present and false, reports a high risk of S0
C21_Witness ==
    \E i \in Calls :
        /\ results[i].result.stage = "S1"
        /\ S0True(results[i].input) = 2
        /\ S0False(results[i].input) = 1
        /\ results[i].result.transition_risks["to_S0"].probability = "high"
        /\ results[i].result.transition_risks["to_S0"].conditions_met = 2

\* C22: for an S1 result, transition_risks["to_S2"].probability is "high" if at
\* least 2 S2 facts are true, "medium" if exactly 1 is true and "low" if none
\* is, the facts counted being the present ones among m01_healthy,
\* rental_stable and supply_stable.
C22_RiskToS2 ==
    \A i \in Calls :
        LET m == results[i].input
            r == results[i].result
        IN  r.stage = "S1" =>
                r.transition_risks["to_S2"].probability =
                    IF S2True(m) >= 2 THEN "high"
                    ELSE IF S2True(m) = 1 THEN "medium" ELSE "low"

\* an S1 result whose snapshot has rental_stable and supply_stable true and
\* m01_healthy false reports a high chance of S2
C22_Witness ==
    \E i \in Calls :
        LET m == results[i].input
        IN  /\ results[i].result.stage = "S1"
            /\ Has(m.m01_low) /\ m.m01_low[1] <= 700
            /\ Has(m.e_supply_tightness) /\ m.e_supply_tightness[1] < 800
            /\ S2True(m) = 2
            /\ results[i].result.transition_risks["to_S2"].probability = "high"

\* the distance of m01_low (absent counted as 0) to a threshold, clamped at 0
Distance(m, t) ==
    LET low == IF Has(m.m01_low) THEN m.m01_low[1] ELSE 0
    IN  IF t - low > 0 THEN t - low ELSE 0

\* the gap of a result: to_S2 for an S1 result, to_S3 for an S2 result
GapOf(r) ==
    IF r.stage = "S1" THEN r.transition_risks["to_S2"].gap.m01_needed
    ELSE r.transition_risks["to_S3"].gap.m01_needed

\* the threshold the gap of a result is measured against
GapTarget(r) == IF r.stage = "S1" THEN 700 ELSE 1000

\* g is d rounded to two decimals: a whole number of hundredths, at most half
\* a hundredth away from d
RoundedTo(g, d) == g % 10 = 0 /\ Abs(g - d) <= 5

\* C23 as stated: the gap is never negative, equals the distance to the target
\* threshold rounded to two decimals, is the full threshold for an absent
\* m01_low, and is 0 exactly when m01_low already reaches the threshold.
\* Violated: the rounding reports 0 for a distance below half a hundredth.
C23_GapZeroIffThresholdReached ==
    \A i \in Calls :
        LET m == results[i].input
            r == results[i].result
        IN  r.stage \in {"S1", "S2"} =>
                /\ GapOf(r) >= 0
                /\ RoundedTo(GapOf(r), Distance(m, GapTarget(r)))
                /\ ~Has(m.m01_low) => GapOf(r) = GapTarget(r)
                /\ GapOf(r) = 0 <=> (Has(m.m01_low) /\ m.m01_low[1] >= GapTarget(r))

\* C23: the gap is never negative and is the distance max(0, threshold -
\* m01_low) rounded to two decimals (0.70 for to_S2 of an S1 result, 1.00 for
\* to_S3 of an S2 result), an absent m01_low counting as 0; it is 0 whenever
\* m01_low reaches the threshold, and also when m01_low is below the threshold
\* by less than half a hundredth.
C23_GapIsRoundedDistance ==
    \A i \in Calls :
        LET m == results[i].input
            r == results[i].result
        IN  r.stage \in {"S1", "S2"} =>
                /\ GapOf(r) >= 0
                /\ RoundedTo(GapOf(r), Distance(m, GapTarget(r)))
                /\ ~Has(m.m01_low) => GapOf(r) = GapTarget(r)
                /\ (Has(m.m01_low) /\ m.m01_low[1] >= GapTarget(r)) => GapOf(r) = 0
                /\ GapOf(r) = 0 => Distance(m, GapTarget(r)) <= 5

\* an S1 result for m01_low = 0.697 reports a gap of 0 although 0.70 is not
\* reached
C23_Witness ==
    \E i \in Calls :
        /\ results[i].result.stage = "S1"
        /\ results[i].input.m01_low = Some(697)
        /\ results[i].result.transition_risks["to_S2"].gap.m01_needed = 0

\* C24: for an S2 result, transition_risks["to_S3"].probability is "high" if
\* both S3 facts are true and "medium" otherwise, with conditions_total = 2,
\* and transition_risks["to_S1"] is the fixed placeholder: probability "low",
\* conditions_met = 0, no computed facts, whatever the snapshot holds.
C24_RisksOfS2 ==
    \A i \in Calls :
        LET m == results[i].input
            r == results[i].result
        IN  r.stage = "S2" =>
                /\ r.transition_risks["to_S3"].probability =
                      IF S3True(m) = 2 THEN "high" ELSE "medium"
                /\ r.transition_risks["to_S3"].conditions_total = 2
                /\ r.transition_risks["to_S1"] =
                      [probability |-> "low", conditions_met |-> 0,
                       conditions_total |-> 2, details |-> EmptyDict]

\* an S2 result with no true S3 fact, whose snapshot has S0 and S1 facts true,
\* reports medium for to_S3 and the placeholder for to_S1
C24_Witness ==
    \E i \in Calls :
        /\ results[i].result.stage = "S2"
        /\ S3True(results[i].input) = 0
        /\ S0True(results[i].input) = 2
        /\ results[i].input.a_growth_streak = 2
        /\ results[i].result.transition_risks["to_S3"].probability = "medium"
        /\ results[i].result.transition_risks["to_S1"].probability = "low"
        /\ results[i].result.transition_risks["to_S1"].details = EmptyDict

\* C27: for an S2 result, transition_risks["to_S3"].probability is "medium" and
\* its conditions_met is at most 1: a snapshot with both S3 facts true is
\* classified S3 (or S0) before S2 is considered.
C27_HighToS3Unreachable ==
    \A i \in Calls :
        LET r == results[i].result
        IN  /\ r.stage = "S2" =>
                  /\ r.transition_risks["to_S3"].probability = "medium"
                  /\ r.transition_risks["to_S3"].conditions_met <= 1
            /\ S3True(results[i].input) = 2 => r.stage \in {"S3", "S0"}

\* an S2 result one fact short of S3: both S3 fields present, margin_stable
\* true, m01_low not above 1.00
C27_Witness ==
    \E i \in Calls :
        LET m == results[i].input
        IN  /\ results[i].result.stage = "S2"
            /\ Has(m.m01_low) /\ Has(m.d3_margin_qoq)
            /\ S3True(m) = 1
            /\ Abs(m.d3_margin_qoq[1]) < 30
            /\ results[i].result.transition_risks["to_S3"].conditions_met = 1
            /\ results[i].result.transition_risks["to_S3"].probability = "medium"

CoverageThresholds == {30, 70, 100}

C28_ConditionsMetBounded ==
    \A i \in Calls :
        LET r == results[i].result
        IN  /\ \A k \in DOMAIN r.transition_risks :
                  /\ 0 <= r.transition_risks[k].conditions_met
                  /\ r.transition_risks[k].conditions_met
                        <= r.transition_risks[k].conditions_total
            /\ r.stage = "S1" =>
                  /\ r.transition_risks["to_S2"].conditions_met <= 2
                  /\ r.transition_risks["to_S0"].conditions_met < 3

\* an S1 result whose snapshot has all three S2 fields, two of the facts true,
\* and two true S0 facts: both counts stop one short of the full rule set
C28_Witness ==
    \E i \in Calls :
        LET m == results[i].input
            r == results[i].result
        IN  /\ r.stage = "S1"
            /\ S2Absent(m) = 0
            /\ r.transition_risks["to_S2"].conditions_met = 2
            /\ r.transition_risks["to_S2"].conditions_total = 2
            /\ r.transition_risks["to_S0"].conditions_met = 2

\* the signals of the stream that report the threshold 0.30
IsReport30(s) == s.signal_type = "coverage_threshold" /\ s.threshold = Some(30)
Reports30 == SelectSeq(signals, IsReport30)

\* C29: in a stream of m01_low observations fed as consecutive pairs, the
\* signals that report threshold 0.30 strictly alternate in direction, and
\* every crossing of 0.30 between consecutive observations is reported.
C29_ReportsAlternate ==
    /\ \A i \in 1..(Len(Reports30) - 1) :
          Reports30[i].metadata.direction # Reports30[i + 1].metadata.direction
    /\ (lastCall.op = "detect_coverage_threshold" /\ lastCall.previous # None) =>
          LET prev == lastCall.previous[1]
              now == lastCall.current
          IN  /\ (prev < 30 /\ 30 <= now) =>
                    /\ lastCall.ret # None
                    /\ lastCall.ret[1].threshold = Some(30)
                    /\ lastCall.ret[1].metadata.direction = "up"
              /\ (prev >= 30 /\ 30 > now) =>
                    /\ lastCall.ret # None
                    /\ lastCall.ret[1].threshold = Some(30)
                    /\ lastCall.ret[1].metadata.direction = "down"

\* the stream rose through 0.30, fell from above 0.70 to below 0.30 in one
\* step, and rose through 0.30 again: three reports of 0.30, up, down, up
C29_Witness ==
    /\ Len(Reports30) = 3
    /\ Reports30[1].metadata.direction = "up"
    /\ Reports30[2].metadata.direction = "down"
    /\ Reports30[2].previous_value = Some(75)
    /\ Reports30[3].metadata.direction = "up"

\* what a coverage call reports: nothing, or a threshold and a direction
Outcome(ret) ==
    IF ret = None THEN None ELSE Some(<<ret[1].threshold, ret[1].metadata.direction>>)

\* C30: whether detect_coverage_threshold returns a signal, and which threshold
\* and direction it reports, depends only on m01_low and previous_m01_low: a
\* call that differs only in m01_high or previous_m01_high has the same
\* outcome, m01_high being copied into the metadata only.
C30_OutcomeIgnoresM01High ==
    lastCall.op = "detect_coverage_threshold" =>
        /\ \A high \in StreamM01High, prevHigh \in StreamPrevM01High :
              Outcome(detect_coverage_threshold(lastCall.current, high,
                                                lastCall.previous, prevHigh))
                 = Outcome(lastCall.ret)
        /\ lastCall.ret # None =>
              lastCall.ret[1].metadata.m01_high = Some(lastCall.m01_high)
        /\ \A i \in 1..Len(signals) :
              (/\ signals[i].current_value = lastCall.current
               /\ signals[i].previous_value = lastCall.previous)
                 => Outcome(Some(signals[i])) = Outcome(lastCall.ret)

\* the same step from 0.25 to 0.30 was observed twice with different m01_high
\* and previous_m01_high, and reported the same threshold and direction
C30_Witness ==
    /\ lastCall.op = "detect_coverage_threshold"
    /\ lastCall.ret # None
    /\ lastCall.previous_m01_high # None
    /\ Len(signals) = 3
    /\ signals[3] = lastCall.ret[1]
    /\ signals[1].current_value = signals[3].current_value
    /\ signals[1].previous_value = signals[3].previous_value
    /\ signals[1].metadata.m01_high # signals[3].metadata.m01_high
    /\ signals[1].threshold = signals[3].threshold
    /\ signals[1].metadata.direction = signals[3].metadata.direction

\* ------------------------------------------------------------- claims: detect_all_signals
\* what a call can detect from its own arguments: a row of prices against a
\* row of previous_prices with the same provider and sku_id
OwnSignals(prices, previous_prices) ==
    {to_dict(ret[1]) :
        ret \in {detect_price_signal(prices[i].sku_id, PriceOf(prices[i]),
                                     PriceOf(previous_prices[j]),
                                     IF Truthy(prices[i].hourly_rate) THEN "C" ELSE "B") :
                    <<i, j>> \in {p \in (DOMAIN prices) \X (DOMAIN previous_prices) :
                                    /\ prices[p[1]].provider = previous_prices[p[2]].provider
                                    /\ prices[p[1]].sku_id = previous_prices[p[2]].sku_id}}
               \ {None}}

\* C26 as stated: callers of detect_all_signals share no mutable state: the
\* list returned to a caller holds only signals detected from that call's own
\* prices and previous_prices, at most one per row of prices, never a signal
\* produced by an earlier call.  Violated: the global detector accumulates.
C26_ReturnsOwnSignalsOnly ==
    \A b \in 1..Len(batches) :
        /\ Len(batches[b].returned) <= Len(batches[b].prices)
        /\ \A j \in 1..Len(batches[b].returned) :
              batches[b].returned[j]
                 \in OwnSignals(batches[b].prices, batches[b].previous_prices)

\* the second caller passed prices of sku b only and got back, behind its own
\* signal, the signal the first caller's prices of sku a produced
C26_Witness ==
    /\ Len(batches) = 2
    /\ batches[1].caller # batches[2].caller
    /\ batches[2].prices = <<In("b", 110)>>
    /\ Len(batches[2].returned) = 2
    /\ batches[2].returned[1].metric_id = "b"
    /\ batches[2].returned[2].metric_id = "a"
    /\ batches[2].returned[2] \in OwnSignals(batches[1].prices, batches[1].previous_prices)

====
